---- MODULE Spec2Model ----
(***************************************************************************)
(* Model of the plant-doctor front end: the session key store (useApiKey), *)
(* the step workflow of App with its three asynchronous model calls, the   *)
(* image selection with its FileReader callbacks, and the recovery and     *)
(* reset actions.  One action per handler, effect or callback.             *)
(*                                                                         *)
(* Two further components have their own specification: the loop of        *)
(* MarkdownRenderer over the lines of a text (MdSpec) and the install and  *)
(* fetch listeners of the service worker (SwSpec).  LoadSpec starts the    *)
(* application on any stored entry, malformed ones included, where Spec    *)
(* starts it on an empty session storage.  The handlers of the             *)
(* views are enabled once the effects of the first commit have run         *)
(* (mounted): React runs them before it handles an event.                  *)
(*                                                                         *)
(* JavaScript values: null is Null; a string is a sequence of one-char     *)
(* strings (so that trim() is computed, not assumed); a nullable string    *)
(* held in React state is Null or Str(s).  User-visible messages are       *)
(* Msg(id), the id naming the literal of the source.                       *)
(***************************************************************************)
EXTENDS Integers, Sequences, FiniteSets, TLC

VARIABLES
    now,             \* Date.now(), in ms
    storage,         \* sessionStorage['gemini-api-key']: Null or the stored text
    mounted,         \* the passive effects of the first commit have run
    apiKey,          \* useApiKey: useState<string | null>(null)
    currentStep,     \* useState<Step>('UPLOAD')
    imageFiles,      \* useState<(File | null)[]>([null, null])
    imageDataUrls,   \* useState<(string | null)[]>([null, null])
    plantName,       \* useState('')
    healthAnalysis,  \* useState('')
    goalAnalysis,    \* useState('')
    userGoal,        \* useState('')
    loadingMessage,  \* useState<string | null>(null)
    error,           \* useState<string | null>(null)
    calls,           \* the async handlers suspended at an await, oldest first
    readers,         \* FileReaders whose onloadend has not fired yet
    lastOp,          \* history: the last handler, effect or callback that ran
    succeeded,       \* history: the calls that succeeded since the workflow
                     \* started (page load or resetWorkflow)
    adviceRequest,   \* history: the arguments of the call whose result is
                     \* in goalAnalysis, and the calls that succeeded later
    identifiedFiles, \* history: the files passed to the identify call that
                     \* led to the current step, <<>> in API_KEY and UPLOAD
    content,         \* MarkdownRenderer: the content prop
    elements,        \* MarkdownRenderer: const elements = []
    inList,          \* MarkdownRenderer: let inList = false
    lineIndex,       \* MarkdownRenderer: the loop variable i
    swState,         \* service worker: its lifecycle state
    cache,           \* service worker: the responses in the cache
    fetches,         \* service worker: the fetch events being answered
    netRequests,     \* history: the URLs the fetch listener asked the network
    served           \* history: the last answer of the fetch listener

vars == <<now, storage, mounted, apiKey, currentStep, imageFiles, imageDataUrls,
          plantName, healthAnalysis, goalAnalysis, userGoal, loadingMessage,
          error, calls, readers, lastOp, succeeded, adviceRequest,
          identifiedFiles,
          content, elements, inList, lineIndex,
          swState, cache, fetches, netRequests, served>>

keyVars == <<storage, apiKey>>
dataVars == <<imageFiles, imageDataUrls, plantName, healthAnalysis, goalAnalysis,
              userGoal>>
histVars == <<succeeded, adviceRequest, identifiedFiles>>
appVars == <<now, storage, mounted, apiKey, currentStep, dataVars,
             loadingMessage, error, calls, readers, lastOp, histVars>>
mdVars == <<content, elements, inList, lineIndex>>
swVars == <<swState, cache, fetches, netRequests, served>>

-----------------------------------------------------------------------------
(* Bounds of the model *)

\* Number of instants at which the clock is observed.
MaxInstants == 2
\* Number of FileReaders that may be pending at once.
MaxReaders == 1
\* Number of lines of a text given to MarkdownRenderer.
MaxLines == 4
\* Number of fetch events the service worker may be answering at once.
MaxFetches == 1

-----------------------------------------------------------------------------
(* JavaScript values *)

Null == [type |-> "null"]
Str(s) == [type |-> "string", val |-> s]
Msg(id) == [type |-> "string", id |-> id]

Undefined == [type |-> "undefined"]
Num(n) == [type |-> "number", val |-> n]
NaN == [type |-> "NaN"]
Arr(elems) == [type |-> "array", elems |-> elems]

\* JS truthiness of a value that is null, undefined, a string or a number.
Truthy(v) ==
    \/ v.type = "string" /\ v.val # <<>>
    \/ v.type = "number" /\ v.val # 0

IsWhitespace(c) == c = " "

RECURSIVE TrimStart(_)
TrimStart(s) ==
    IF s = <<>> THEN s
    ELSE IF IsWhitespace(Head(s)) THEN TrimStart(Tail(s)) ELSE s

RECURSIVE TrimEnd(_)
TrimEnd(s) ==
    IF s = <<>> THEN s
    ELSE IF IsWhitespace(s[Len(s)]) THEN TrimEnd(SubSeq(s, 1, Len(s) - 1)) ELSE s

\* String.prototype.trim
Trim(s) == TrimEnd(TrimStart(s))

-----------------------------------------------------------------------------
(* Program constants and input domains *)

MINUTE_MS == 60 * 1000
SESSION_TIMEOUT_MS == 30 * 60 * 1000

\* The clock starts more than one timeout after the epoch, as Date.now() does.
ClockStart == 2 * SESSION_TIMEOUT_MS

\* Times since the start at which the model observes the clock, in the order
\* in which the bound adds them: the start and the session timeout, then one
\* minute before and after it, then the same around twice the timeout.
ClockOffsets ==
    <<0,
      SESSION_TIMEOUT_MS,
      SESSION_TIMEOUT_MS - MINUTE_MS,
      SESSION_TIMEOUT_MS + MINUTE_MS,
      2 * SESSION_TIMEOUT_MS - MINUTE_MS, 2 * SESSION_TIMEOUT_MS,
      2 * SESSION_TIMEOUT_MS + MINUTE_MS>>

Instants ==
    {ClockStart + ClockOffsets[i] : i \in 1..MaxInstants}

Steps == {"API_KEY", "UPLOAD", "CONFIRM", "DIAGNOSE", "GOAL"}

\* What the user may type into the key field.
RawKeys == {<<>>, <<" ">>, <<"X">>, <<" ", "X", " ">>}

\* Files the user may pick; type is the MIME type split at '/'.
ImageFile == [type |-> "file", name |-> "a.png", mime |-> <<"image", "png">>]
TextFile == [type |-> "file", name |-> "c.txt", mime |-> <<"text", "plain">>]
PickedFiles == {ImageFile, TextFile}

\* response.text of the three model calls.
IdentifyTexts == {<<" ", "q", " ">>}
HealthTexts == {<<"h">>}
AdviceTexts == {<<"v">>}

\* What the user may type into the plant-name and goal fields.
NameInputs == {<<>>, <<" ">>, <<"q">>}
GoalInputs == {<<" ">>, <<"g">>}

-----------------------------------------------------------------------------
(* Session key store: useApiKey *)

\* The decimal digits, Digits[d + 1] being the digit of value d.
Digits == <<"0", "1", "2", "3", "4", "5", "6", "7", "8", "9">>
IsDigit(c) == \E d \in 1..10 : Digits[d] = c
DigitVal(c) == (CHOOSE d \in 1..10 : Digits[d] = c) - 1

\* The number a sequence of digits denotes.
RECURSIVE ParseDigits(_)
ParseDigits(s) ==
    IF s = <<>> THEN 0
    ELSE 10 * ParseDigits(SubSeq(s, 1, Len(s) - 1)) + DigitVal(s[Len(s)])

\* String(n) of a non-negative integer n.
RECURSIVE NumberToString(_)
NumberToString(n) ==
    IF n < 10 THEN <<Digits[n + 1]>>
    ELSE NumberToString(n \div 10) \o <<Digits[(n % 10) + 1]>>

\* ToString of a string, a number, or an array (its elements joined by ",").
RECURSIVE ToStr(_)
ToStr(v) ==
    CASE v.type = "string" -> v.val
      [] v.type = "number" -> NumberToString(v.val)
      [] v.type = "array" ->
           IF v.elems = <<>> THEN <<>>
           ELSE IF Len(v.elems) = 1 THEN ToStr(v.elems[1])
           ELSE ToStr(v.elems[1]) \o <<",">> \o ToStr(Arr(Tail(v.elems)))

\* Number(s) of a string: 0 for a blank one, the value of a string of
\* digits, NaN for the others.
StringToNumber(s) ==
    LET t == Trim(s) IN
    IF t = <<>> THEN Num(0)
    ELSE IF \A k \in 1..Len(t) : IsDigit(t[k]) THEN Num(ParseDigits(t))
    ELSE NaN

\* ToNumber, the conversion the operator - applies to its operands.
ToNumber(v) ==
    CASE v.type = "number" -> v
      [] v.type = "NaN" -> NaN
      [] v.type = "undefined" -> NaN
      [] v.type = "null" -> Num(0)
      [] v.type = "string" -> StringToNumber(v.val)
      [] v.type = "array" -> StringToNumber(ToStr(v))

\* JSON.stringify of {key, timestamp}, as written to sessionStorage.
JSONstringify(item) ==
    [type |-> "json", key |-> item.key, timestamp |-> item.timestamp]

\* A stored text that is not the text of a JSON object: JSON.parse or the
\* destructuring of its result throws.
NotAnObject(text) == [type |-> "text", text |-> text]

\* A stored text that is the JSON of an object whose key and timestamp
\* members are the given values, Undefined for a member that is missing.
ObjectText(key, timestamp) ==
    [type |-> "object", key |-> key, timestamp |-> timestamp]

\* JSON.parse of a stored text followed by the destructuring of key and
\* timestamp: throws on a text that is not a JSON object.
JSONparse(text) ==
    CASE text.type = "json" ->
           [threw |-> FALSE, key |-> Str(text.key),
            timestamp |-> Num(text.timestamp)]
      [] text.type = "object" ->
           [threw |-> FALSE, key |-> text.key, timestamp |-> text.timestamp]
      [] OTHER -> [threw |-> TRUE]

\* Variant of NotExpired that still accepts a credential at the timeout.
NotExpired_inclusive(t, timestamp) == t - timestamp <= SESSION_TIMEOUT_MS

\* The comparison of the load effect.
NotExpired(t, timestamp) == t - timestamp < SESSION_TIMEOUT_MS

\* The load effect of useApiKey, run once at mount at time t with the stored
\* text item: the credential it sets and the storage it leaves.
LoadApiKey(item, t) ==
    IF item = Null THEN [apiKey |-> Null, storage |-> item]
    ELSE LET parsed == JSONparse(item) IN
         IF parsed.threw THEN [apiKey |-> Null, storage |-> Null]
         ELSE LET timestamp == ToNumber(parsed.timestamp) IN
              IF timestamp # NaN /\ NotExpired(t, timestamp.val)
              THEN [apiKey |-> parsed.key, storage |-> item]
              ELSE [apiKey |-> Null, storage |-> Null]

\* Variant of StepForKey that never asks for a key.
StepForKey_alwaysUpload(k) == "UPLOAD"

\* The effect of App on [apiKey]: the step it sets for a credential value.
StepForKey(k) == IF ~Truthy(k) THEN "API_KEY" ELSE "UPLOAD"

\* The initial values of App's useState calls for the workflow.
InitialWorkflow ==
    /\ imageFiles = <<Null, Null>>
    /\ imageDataUrls = <<Null, Null>>
    /\ plantName = <<>>
    /\ healthAnalysis = <<>>
    /\ goalAnalysis = <<>>
    /\ userGoal = <<>>
    /\ loadingMessage = Null
    /\ error = Null

\* The state of App and useApiKey before the first commit, whatever the
\* session storage holds.
PageInit ==
    /\ now = ClockStart
    /\ mounted = FALSE
    /\ apiKey = Null
    /\ currentStep = "UPLOAD"
    /\ InitialWorkflow
    /\ calls = <<>>
    /\ readers = {}
    /\ lastOp = "init"
    /\ succeeded = {}
    /\ adviceRequest = Null
    /\ identifiedFiles = <<>>

\* The page is opened in a new tab: the session storage is empty.
AppInit ==
    /\ storage = Null
    /\ PageInit

\* No text is being rendered.
MdIdle ==
    /\ content = <<>>
    /\ elements = <<>>
    /\ inList = FALSE
    /\ lineIndex = 0

\* The service worker is registered and has not been installed.
SwRegistered ==
    /\ swState = "parsed"
    /\ cache = {}
    /\ fetches = {}
    /\ netRequests = {}
    /\ served = Null

Init ==
    /\ AppInit
    /\ MdIdle
    /\ SwRegistered

\* Variant of View that does not show the loading view.
View_ignoresLoading ==
    IF error # Null THEN "ERROR" ELSE currentStep

\* Variant of View that shows the step view although an error is set.
View_ignoresError ==
    IF loadingMessage # Null THEN "LOADING" ELSE currentStep

\* What renderContent shows.
View ==
    IF loadingMessage # Null THEN "LOADING"
    ELSE IF error # Null THEN "ERROR"
    ELSE currentStep

\* The clock advances to a later instant.
Tick ==
    /\ \E t \in Instants : t > now /\ now' = t
    /\ UNCHANGED <<mdVars, swVars>>
    /\ UNCHANGED histVars
    /\ UNCHANGED <<storage, mounted, apiKey, currentStep, dataVars,
                   loadingMessage, error, calls, readers, lastOp>>

\* The passive effects of the first commit: the load effect of useApiKey,
\* the step effect of App with apiKey still null, and, when the load set a
\* credential, the step effect again after the re-render.
Mount ==
    /\ ~mounted
    /\ LET loaded == LoadApiKey(storage, now) IN
         /\ apiKey' = loaded.apiKey
         /\ storage' = loaded.storage
         /\ currentStep' = StepForKey(loaded.apiKey)
    /\ mounted' = TRUE
    /\ lastOp' = "Mount"
    /\ UNCHANGED <<mdVars, swVars>>
    /\ UNCHANGED histVars
    /\ UNCHANGED <<now, dataVars, loadingMessage, error, calls, readers>>

\* saveApiKey(key), with the step effect its setApiKey triggers.
saveApiKey(key) ==
    IF key # <<>>
    THEN /\ storage' = JSONstringify([key |-> key, timestamp |-> now])
         /\ apiKey' = Str(key)
         /\ currentStep' = IF Str(key) # apiKey THEN StepForKey(Str(key))
                           ELSE currentStep
    ELSE UNCHANGED <<storage, apiKey, currentStep>>

\* Variant of handleSubmit that passes the key on as it was typed.
handleSubmit_noTrim(raw) ==
    /\ mounted
    /\ View = "API_KEY"
    /\ IF Trim(raw) # <<>>
       THEN saveApiKey(raw)
       ELSE UNCHANGED <<storage, apiKey, currentStep>>
    /\ lastOp' = "handleSubmit"
    /\ UNCHANGED <<mdVars, swVars>>
    /\ UNCHANGED histVars
    /\ UNCHANGED <<now, mounted, dataVars, loadingMessage, error, calls, readers>>

\* ApiKeyInput.handleSubmit with raw typed into the field.
handleSubmit(raw) ==
    /\ mounted
    /\ View = "API_KEY"
    /\ IF Trim(raw) # <<>>
       THEN saveApiKey(Trim(raw))
       ELSE UNCHANGED <<storage, apiKey, currentStep>>
    /\ lastOp' = "handleSubmit"
    /\ UNCHANGED <<mdVars, swVars>>
    /\ UNCHANGED histVars
    /\ UNCHANGED <<now, mounted, dataVars, loadingMessage, error, calls, readers>>

\* The page is reloaded: every React state starts over, outstanding promises
\* and readers are abandoned, sessionStorage is kept.
Reload ==
    /\ mounted
    /\ mounted' = FALSE
    /\ apiKey' = Null
    /\ currentStep' = "UPLOAD"
    /\ imageFiles' = <<Null, Null>>
    /\ imageDataUrls' = <<Null, Null>>
    /\ plantName' = <<>>
    /\ healthAnalysis' = <<>>
    /\ goalAnalysis' = <<>>
    /\ userGoal' = <<>>
    /\ loadingMessage' = Null
    /\ error' = Null
    /\ calls' = <<>>
    /\ readers' = {}
    /\ lastOp' = "Reload"
    /\ UNCHANGED <<mdVars, swVars>>
    /\ succeeded' = {}
    /\ adviceRequest' = Null
    /\ identifiedFiles' = <<>>
    /\ UNCHANGED <<now, storage>>

-----------------------------------------------------------------------------
(* Workflow: App *)

\* adviceRequest once the call op has succeeded: the advice in goalAnalysis,
\* if there is one, is now older than the result of op.
Superseded(op) ==
    IF adviceRequest = Null THEN Null
    ELSE [adviceRequest EXCEPT !.later = @ \cup {op}]

\* Variant of resetWorkflow that leaves the advice of the previous run.
resetWorkflow_keepsAdvice ==
    /\ mounted
    /\ View = "GOAL"
    /\ imageFiles' = <<Null, Null>>
    /\ imageDataUrls' = <<Null, Null>>
    /\ plantName' = <<>>
    /\ healthAnalysis' = <<>>
    /\ userGoal' = <<>>
    /\ loadingMessage' = Null
    /\ error' = Null
    /\ currentStep' = "UPLOAD"
    /\ lastOp' = "resetWorkflow"
    /\ UNCHANGED <<mdVars, swVars>>
    /\ succeeded' = {}
    /\ UNCHANGED adviceRequest
    /\ identifiedFiles' = <<>>
    /\ UNCHANGED <<now, storage, mounted, apiKey, calls, readers, goalAnalysis>>

\* resetWorkflow, the onReset of GoalStep.
resetWorkflow ==
    /\ mounted
    /\ View = "GOAL"
    /\ imageFiles' = <<Null, Null>>
    /\ imageDataUrls' = <<Null, Null>>
    /\ plantName' = <<>>
    /\ healthAnalysis' = <<>>
    /\ goalAnalysis' = <<>>
    /\ userGoal' = <<>>
    /\ loadingMessage' = Null
    /\ error' = Null
    /\ currentStep' = "UPLOAD"
    /\ lastOp' = "resetWorkflow"
    /\ UNCHANGED <<mdVars, swVars>>
    /\ succeeded' = {}
    /\ adviceRequest' = Null
    /\ identifiedFiles' = <<>>
    /\ UNCHANGED <<now, storage, mounted, apiKey, calls, readers>>

\* Variant of IsImage that accepts every file.
IsImage_any(file) == TRUE

\* file.type.startsWith('image/')
IsImage(file) == file.mime[1] = "image"

\* reader.result after readAsDataURL(file): the data URL, or null when the
\* read failed.
ReaderResult(file, ok) ==
    IF ok THEN [type |-> "string", dataOf |-> file.name] ELSE Null

\* handleImageChange(index) with event.target.files[0] = file (Null when the
\* dialog was cancelled).
handleImageChange(index, file) ==
    /\ mounted
    /\ View = "UPLOAD"
    /\ IF file = Null
       THEN UNCHANGED <<error, imageFiles, readers>>
       ELSE IF ~IsImage(file)
       THEN /\ error' = Msg("not-image")
            /\ UNCHANGED <<imageFiles, readers>>
       ELSE /\ Cardinality(readers) < MaxReaders
            /\ imageFiles' = [imageFiles EXCEPT ![index] = file]
            /\ readers' = readers \cup
                 {[index |-> index, file |-> file, imageDataUrls |-> imageDataUrls]}
            /\ UNCHANGED error
    /\ lastOp' = "handleImageChange"
    /\ UNCHANGED <<mdVars, swVars>>
    /\ UNCHANGED histVars
    /\ UNCHANGED <<now, storage, mounted, apiKey, currentStep, imageDataUrls,
                   plantName, healthAnalysis, goalAnalysis, userGoal,
                   loadingMessage, calls>>

\* reader.onloadend of a pending FileReader r: writes its result into the
\* copy of imageDataUrls its closure captured.
onloadend(r, ok) ==
    /\ r \in readers
    /\ imageDataUrls' =
         [r.imageDataUrls EXCEPT ![r.index] = ReaderResult(r.file, ok)]
    /\ readers' = readers \ {r}
    /\ lastOp' = "onloadend"
    /\ UNCHANGED <<mdVars, swVars>>
    /\ UNCHANGED histVars
    /\ UNCHANGED <<now, storage, mounted, apiKey, currentStep, imageFiles,
                   plantName, healthAnalysis, goalAnalysis, userGoal,
                   loadingMessage, error, calls>>

\* imageFiles.some(f => f)
SomeFile(files) == \E i \in 1..Len(files) : files[i] # Null

\* imageFiles.filter(file => file !== null)
NonNullFiles(files) == SelectSeq(files, LAMBDA f : f # Null)

\* seq without its i-th element.
RemoveAt(seq, i) == SubSeq(seq, 1, i - 1) \o SubSeq(seq, i + 1, Len(seq))

\* The suspended handler: the operation, the await it is suspended at, what
\* its closure captured, the step it was started in, and how many requests it
\* has sent to the model.
Suspended(op, stage) ==
    [type |-> "call", op |-> op, stage |-> stage, step |-> currentStep,
     apiKey |-> apiKey, files |-> NonNullFiles(imageFiles),
     plantName |-> plantName, healthAnalysis |-> healthAnalysis,
     userGoal |-> userGoal, requests |-> IF stage = "request" THEN 1 ELSE 0]

\* Variant of handleIdentification that does not ask for an image.
handleIdentification_noCheck ==
    /\ mounted
    /\ View = "UPLOAD"
    /\ loadingMessage' = Msg("identifying")
    /\ error' = Null
    /\ calls' = Append(calls, Suspended("identify", "encode"))
    /\ lastOp' = "handleIdentification"
    /\ UNCHANGED <<mdVars, swVars>>
    /\ UNCHANGED histVars
    /\ UNCHANGED <<now, storage, mounted, apiKey, currentStep, dataVars, readers>>

\* handleIdentification, up to its first await.
handleIdentification ==
    /\ mounted
    /\ View = "UPLOAD"
    /\ IF ~SomeFile(imageFiles)
       THEN /\ error' = Msg("missing-image")
            /\ UNCHANGED <<loadingMessage, calls>>
       ELSE /\ loadingMessage' = Msg("identifying")
            /\ error' = Null
            /\ calls' = Append(calls, Suspended("identify", "encode"))
    /\ lastOp' = "handleIdentification"
    /\ UNCHANGED <<mdVars, swVars>>
    /\ UNCHANGED histVars
    /\ UNCHANGED <<now, storage, mounted, apiKey, currentStep, dataVars, readers>>

\* Variant of handleAnalysis that tests the name without trimming it.
handleAnalysis_noTrim ==
    /\ mounted
    /\ View = "CONFIRM"
    /\ IF plantName = <<>>
       THEN /\ error' = Msg("empty-name")
            /\ UNCHANGED <<loadingMessage, calls>>
       ELSE /\ loadingMessage' = Msg("analysing")
            /\ error' = Null
            /\ calls' = Append(calls, Suspended("analyze", "encode"))
    /\ lastOp' = "handleAnalysis"
    /\ UNCHANGED <<mdVars, swVars>>
    /\ UNCHANGED histVars
    /\ UNCHANGED <<now, storage, mounted, apiKey, currentStep, dataVars, readers>>

\* handleAnalysis, up to its first await.
handleAnalysis ==
    /\ mounted
    /\ View = "CONFIRM"
    /\ IF Trim(plantName) = <<>>
       THEN /\ error' = Msg("empty-name")
            /\ UNCHANGED <<loadingMessage, calls>>
       ELSE /\ loadingMessage' = Msg("analysing")
            /\ error' = Null
            /\ calls' = Append(calls, Suspended("analyze", "encode"))
    /\ lastOp' = "handleAnalysis"
    /\ UNCHANGED <<mdVars, swVars>>
    /\ UNCHANGED histVars
    /\ UNCHANGED <<now, storage, mounted, apiKey, currentStep, dataVars, readers>>

\* Variant of handleGoalAdvice that starts the call without the loading
\* message.
handleGoalAdvice_noLoading ==
    /\ mounted
    /\ View = "GOAL"
    /\ IF Trim(userGoal) = <<>>
       THEN /\ error' = Msg("empty-goal")
            /\ UNCHANGED <<loadingMessage, calls>>
       ELSE /\ error' = Null
            /\ calls' = Append(calls, Suspended("advice", "request"))
            /\ UNCHANGED loadingMessage
    /\ lastOp' = "handleGoalAdvice"
    /\ UNCHANGED <<mdVars, swVars>>
    /\ UNCHANGED histVars
    /\ UNCHANGED <<now, storage, mounted, apiKey, currentStep, dataVars, readers>>

\* handleGoalAdvice, up to its await.
handleGoalAdvice ==
    /\ mounted
    /\ View = "GOAL"
    /\ IF Trim(userGoal) = <<>>
       THEN /\ error' = Msg("empty-goal")
            /\ UNCHANGED <<loadingMessage, calls>>
       ELSE /\ loadingMessage' = Msg("advising")
            /\ error' = Null
            /\ calls' = Append(calls, Suspended("advice", "request"))
    /\ lastOp' = "handleGoalAdvice"
    /\ UNCHANGED <<mdVars, swVars>>
    /\ UNCHANGED histVars
    /\ UNCHANGED <<now, storage, mounted, apiKey, currentStep, dataVars, readers>>

\* Promise.all of the fileToGenerativePart calls resolves: the handler goes
\* on to the model call.
encodeResolves(i) ==
    /\ i \in DOMAIN calls
    /\ calls[i].stage = "encode"
    /\ calls' = [calls EXCEPT ![i].stage = "request",
                              ![i].requests = calls[i].requests + 1]
    /\ lastOp' = "encodeResolves"
    /\ UNCHANGED <<mdVars, swVars>>
    /\ UNCHANGED histVars
    /\ UNCHANGED <<now, storage, mounted, apiKey, currentStep, dataVars,
                   loadingMessage, error, readers>>

\* The message each handler's catch block sets.
CatchMessage(op) ==
    CASE op = "identify" -> Msg("identify-failed")
      [] op = "analyze" -> Msg("analysis-failed")
      [] op = "advice" -> Msg("advice-failed")

\* Variant of callRejects without the finally block.
callRejects_noFinally(i) ==
    /\ i \in DOMAIN calls
    /\ error' = CatchMessage(calls[i].op)
    /\ calls' = RemoveAt(calls, i)
    /\ lastOp' = "callRejects"
    /\ UNCHANGED <<mdVars, swVars>>
    /\ UNCHANGED histVars
    /\ UNCHANGED <<now, storage, mounted, apiKey, currentStep, dataVars, readers,
                   loadingMessage>>

\* Variant of callRejects whose catch block also goes back to the upload step.
callRejects_backToUpload(i) ==
    /\ i \in DOMAIN calls
    /\ error' = CatchMessage(calls[i].op)
    /\ loadingMessage' = Null
    /\ currentStep' = "UPLOAD"
    /\ calls' = RemoveAt(calls, i)
    /\ lastOp' = "callRejects"
    /\ UNCHANGED <<mdVars, swVars>>
    /\ UNCHANGED histVars
    /\ UNCHANGED <<now, storage, mounted, apiKey, dataVars, readers>>

\* Variant of callRejects whose handler sends a failed request once more.
callRejects_retries(i) ==
    /\ i \in DOMAIN calls
    /\ IF calls[i].requests = 1
       THEN /\ calls' = [calls EXCEPT ![i].requests = 2]
            /\ UNCHANGED <<error, loadingMessage>>
       ELSE /\ error' = CatchMessage(calls[i].op)
            /\ loadingMessage' = Null
            /\ calls' = RemoveAt(calls, i)
    /\ lastOp' = "callRejects"
    /\ UNCHANGED <<mdVars, swVars>>
    /\ UNCHANGED histVars
    /\ UNCHANGED <<now, storage, mounted, apiKey, currentStep, dataVars, readers>>

\* The awaited promise rejects (the encoding or the model call): the catch
\* and finally blocks of the suspended handler.
callRejects(i) ==
    /\ i \in DOMAIN calls
    /\ error' = CatchMessage(calls[i].op)
    /\ loadingMessage' = Null
    /\ calls' = RemoveAt(calls, i)
    /\ lastOp' = "callRejects"
    /\ UNCHANGED <<mdVars, swVars>>
    /\ UNCHANGED histVars
    /\ UNCHANGED <<now, storage, mounted, apiKey, currentStep, dataVars, readers>>

\* identifyPlant resolves with response.text = text: the rest of the try
\* block and the finally block of handleIdentification.
identifyResolves(i, text) ==
    /\ i \in DOMAIN calls
    /\ calls[i].op = "identify"
    /\ calls[i].stage = "request"
    /\ plantName' = Trim(text)
    /\ currentStep' = "CONFIRM"
    /\ loadingMessage' = Null
    /\ calls' = RemoveAt(calls, i)
    /\ lastOp' = "identifyResolves"
    /\ UNCHANGED <<mdVars, swVars>>
    /\ succeeded' = succeeded \cup {"identify"}
    /\ adviceRequest' = Superseded("identify")
    /\ identifiedFiles' = calls[i].files
    /\ UNCHANGED <<now, storage, mounted, apiKey, imageFiles, imageDataUrls,
                   healthAnalysis, goalAnalysis, userGoal, error, readers>>

\* Variant of analyzeResolves that stays in the confirmation step.
analyzeResolves_staysInConfirm(i, text) ==
    /\ i \in DOMAIN calls
    /\ calls[i].op = "analyze"
    /\ calls[i].stage = "request"
    /\ healthAnalysis' = text
    /\ loadingMessage' = Null
    /\ calls' = RemoveAt(calls, i)
    /\ lastOp' = "analyzeResolves"
    /\ UNCHANGED <<mdVars, swVars>>
    /\ succeeded' = succeeded \cup {"analyze"}
    /\ adviceRequest' = Superseded("analyze")
    /\ UNCHANGED identifiedFiles
    /\ UNCHANGED <<now, storage, mounted, apiKey, currentStep, imageFiles,
                   imageDataUrls, plantName, goalAnalysis, userGoal, error,
                   readers>>

\* analyzePlantHealth resolves with response.text = text.
analyzeResolves(i, text) ==
    /\ i \in DOMAIN calls
    /\ calls[i].op = "analyze"
    /\ calls[i].stage = "request"
    /\ healthAnalysis' = text
    /\ currentStep' = "DIAGNOSE"
    /\ loadingMessage' = Null
    /\ calls' = RemoveAt(calls, i)
    /\ lastOp' = "analyzeResolves"
    /\ UNCHANGED <<mdVars, swVars>>
    /\ succeeded' = succeeded \cup {"analyze"}
    /\ adviceRequest' = Superseded("analyze")
    /\ UNCHANGED identifiedFiles
    /\ UNCHANGED <<now, storage, mounted, apiKey, imageFiles, imageDataUrls,
                   plantName, goalAnalysis, userGoal, error, readers>>

\* Variant of adviceResolves that shows the diagnosis again.
adviceResolves_backToDiagnose(i, text) ==
    /\ i \in DOMAIN calls
    /\ calls[i].op = "advice"
    /\ calls[i].stage = "request"
    /\ goalAnalysis' = text
    /\ currentStep' = "DIAGNOSE"
    /\ loadingMessage' = Null
    /\ calls' = RemoveAt(calls, i)
    /\ lastOp' = "adviceResolves"
    /\ UNCHANGED <<mdVars, swVars>>
    /\ adviceRequest' = [type |-> "request", plantName |-> calls[i].plantName,
                         healthAnalysis |-> calls[i].healthAnalysis,
                         later |-> {}]
    /\ UNCHANGED <<succeeded, identifiedFiles>>
    /\ UNCHANGED <<now, storage, mounted, apiKey, imageFiles,
                   imageDataUrls, plantName, healthAnalysis, userGoal, error,
                   readers>>

\* getGoalOrientedAdvice resolves with response.text = text.
adviceResolves(i, text) ==
    /\ i \in DOMAIN calls
    /\ calls[i].op = "advice"
    /\ calls[i].stage = "request"
    /\ goalAnalysis' = text
    /\ loadingMessage' = Null
    /\ calls' = RemoveAt(calls, i)
    /\ lastOp' = "adviceResolves"
    /\ UNCHANGED <<mdVars, swVars>>
    /\ adviceRequest' = [type |-> "request", plantName |-> calls[i].plantName,
                         healthAnalysis |-> calls[i].healthAnalysis,
                         later |-> {}]
    /\ UNCHANGED <<succeeded, identifiedFiles>>
    /\ UNCHANGED <<now, storage, mounted, apiKey, currentStep, imageFiles,
                   imageDataUrls, plantName, healthAnalysis, userGoal, error,
                   readers>>

\* The onChange of the plant-name field of ConfirmStep.
setPlantName(name) ==
    /\ mounted
    /\ View = "CONFIRM"
    /\ plantName' = name
    /\ lastOp' = "setPlantName"
    /\ UNCHANGED <<mdVars, swVars>>
    /\ UNCHANGED histVars
    /\ UNCHANGED <<now, storage, mounted, apiKey, currentStep, imageFiles,
                   imageDataUrls, healthAnalysis, goalAnalysis, userGoal,
                   loadingMessage, error, calls, readers>>

\* The onChange of the goal field of GoalStep.
setUserGoal(goal) ==
    /\ mounted
    /\ View = "GOAL"
    /\ userGoal' = goal
    /\ lastOp' = "setUserGoal"
    /\ UNCHANGED <<mdVars, swVars>>
    /\ UNCHANGED histVars
    /\ UNCHANGED <<now, storage, mounted, apiKey, currentStep, imageFiles,
                   imageDataUrls, plantName, healthAnalysis, goalAnalysis,
                   loadingMessage, error, calls, readers>>

\* The onNext of DiagnoseStep.
diagnoseNext ==
    /\ mounted
    /\ View = "DIAGNOSE"
    /\ currentStep' = "GOAL"
    /\ lastOp' = "diagnoseNext"
    /\ UNCHANGED <<mdVars, swVars>>
    /\ UNCHANGED histVars
    /\ UNCHANGED <<now, storage, mounted, apiKey, dataVars, loadingMessage,
                   error, calls, readers>>

\* Variant of errorReset that returns to the confirmation step.
errorReset_toConfirm ==
    /\ mounted
    /\ View = "ERROR"
    /\ error' = Null
    /\ currentStep' = "CONFIRM"
    /\ lastOp' = "errorReset"
    /\ UNCHANGED <<mdVars, swVars>>
    /\ identifiedFiles' = <<>>
    /\ UNCHANGED <<succeeded, adviceRequest>>
    /\ UNCHANGED <<now, storage, mounted, apiKey, dataVars, loadingMessage,
                   calls, readers>>

\* The onReset of ErrorView.
errorReset ==
    /\ mounted
    /\ View = "ERROR"
    /\ error' = Null
    /\ currentStep' = "UPLOAD"
    /\ lastOp' = "errorReset"
    /\ UNCHANGED <<mdVars, swVars>>
    /\ identifiedFiles' = <<>>
    /\ UNCHANGED <<succeeded, adviceRequest>>
    /\ UNCHANGED <<now, storage, mounted, apiKey, dataVars, loadingMessage,
                   calls, readers>>

Next ==
    \/ Tick
    \/ Mount
    \/ \E raw \in RawKeys : handleSubmit(raw)
    \/ Reload
    \/ resetWorkflow
    \/ \E i \in 1..2, f \in PickedFiles \cup {Null} : handleImageChange(i, f)
    \/ \E r \in readers, ok \in BOOLEAN : onloadend(r, ok)
    \/ handleIdentification
    \/ handleAnalysis
    \/ handleGoalAdvice
    \/ \E i \in DOMAIN calls : encodeResolves(i)
    \/ \E i \in DOMAIN calls : callRejects(i)
    \/ \E i \in DOMAIN calls, text \in IdentifyTexts : identifyResolves(i, text)
    \/ \E i \in DOMAIN calls, text \in HealthTexts : analyzeResolves(i, text)
    \/ \E i \in DOMAIN calls, text \in AdviceTexts : adviceResolves(i, text)
    \/ \E name \in NameInputs : setPlantName(name)
    \/ \E goal \in GoalInputs : setUserGoal(goal)
    \/ diagnoseNext
    \/ errorReset

Spec == Init /\ [][Next]_vars

\* An awaited promise that is outstanding settles, or the handler moves on
\* to its next await.
Settle ==
    \/ \E i \in DOMAIN calls : encodeResolves(i)
    \/ \E i \in DOMAIN calls : callRejects(i)
    \/ \E i \in DOMAIN calls, text \in IdentifyTexts : identifyResolves(i, text)
    \/ \E i \in DOMAIN calls, text \in HealthTexts : analyzeResolves(i, text)
    \/ \E i \in DOMAIN calls, text \in AdviceTexts : adviceResolves(i, text)

\* Every started call eventually settles: the hypothesis under which the
\* loading state is claimed to end.
SettleSpec == Spec /\ WF_vars(Settle)

\* The effects of the first commit always run.
MountSpec == Spec /\ WF_vars(Mount)

\* What the runtime schedules by itself: the effects of the first commit, the
\* callbacks of pending readers, and the settlement of every started call.
\* User actions and the passing of time are not forced.
FairSpec ==
    /\ Spec
    /\ WF_vars(Mount)
    /\ WF_vars(\E r \in readers, ok \in BOOLEAN : onloadend(r, ok))
    /\ WF_vars(Settle)

-----------------------------------------------------------------------------
(* Text rendering: MarkdownRenderer *)

\* The lines a rendered text is made of: a heading, two bullets, an empty
\* line, a paragraph, and a line that starts with '*' but is no bullet.
LineTexts ==
    {<<"#", "#", "#", " ", "T">>, <<"*", " ", "a">>, <<"*", " ", "b">>,
     <<>>, <<"t">>, <<"*", "a">>}

\* ls joined by line feeds.
RECURSIVE JoinLines(_)
JoinLines(ls) ==
    IF Len(ls) = 1 THEN ls[1]
    ELSE ls[1] \o <<"\n">> \o JoinLines(Tail(ls))

\* The texts given to MarkdownRenderer.
Contents ==
    {JoinLines(ls) : ls \in UNION {[1..n -> LineTexts] : n \in 1..MaxLines}}

\* s.startsWith(prefix)
StartsWith(s, prefix) ==
    Len(s) >= Len(prefix) /\ SubSeq(s, 1, Len(prefix)) = prefix

\* s.substring(n)
Substring(s, n) == SubSeq(s, n + 1, Len(s))

\* s.indexOf(t, from), counted from 1; 0 when t does not occur.
RECURSIVE IndexOf(_, _, _)
IndexOf(s, t, from) ==
    IF from + Len(t) - 1 > Len(s) THEN 0
    ELSE IF SubSeq(s, from, from + Len(t) - 1) = t THEN from
    ELSE IndexOf(s, t, from + 1)

\* content.split('\n')
RECURSIVE Split(_)
Split(s) ==
    LET k == IndexOf(s, <<"\n">>, 1) IN
      IF k = 0 THEN <<s>>
      ELSE <<SubSeq(s, 1, k - 1)>> \o Split(Substring(s, k))

\* line.replace(/\*\*(.*?)\*\*/g, '<strong>$1</strong>')
RECURSIVE Bold(_)
Bold(line) ==
    LET open == IndexOf(line, <<"*", "*">>, 1)
        close == IF open = 0 THEN 0 ELSE IndexOf(line, <<"*", "*">>, open + 2)
    IN  IF close = 0 THEN line
        ELSE SubSeq(line, 1, open - 1) \o <<"<strong>">>
               \o SubSeq(line, open + 2, close - 1) \o <<"</strong>">>
               \o Bold(Substring(line, close + 1))

\* A React element with its inner HTML, and a <ul> with its children.
Element(tag, html) == [type |-> "element", tag |-> tag, html |-> html]
Ul(children) == [type |-> "element", tag |-> "ul", children |-> children]

\* renderLine(line, index)
renderLine(line) ==
    LET boldedLine == Bold(line) IN
      IF StartsWith(line, <<"#", "#", "#", " ">>)
      THEN Element("h3", Substring(boldedLine, 4))
      ELSE IF StartsWith(line, <<"#", "#", " ">>)
      THEN Element("h2", Substring(boldedLine, 3))
      ELSE IF StartsWith(line, <<"#", " ">>)
      THEN Element("h1", Substring(boldedLine, 2))
      ELSE IF StartsWith(line, <<"*", " ">>)
      THEN Element("li", Substring(boldedLine, 2))
      ELSE IF Trim(line) = <<>> THEN Null
      ELSE Element("p", boldedLine)

\* React.Children.toArray(children): the children that are not null.
ChildrenToArray(children) == SelectSeq(children, LAMBDA c : c # Null)

\* const lines = content.split('\n')
lines == Split(content)

\* MarkdownRenderer is called with a text: the state before its loop.
MdInit ==
    /\ AppInit
    /\ content \in Contents
    /\ elements = <<>>
    /\ inList = FALSE
    /\ lineIndex = 0
    /\ SwRegistered

\* Variant of renderLoop that opens a list for every bullet line.
renderLoop_listPerBullet ==
    /\ lineIndex < Len(lines)
    /\ LET line == lines[lineIndex + 1]
           isListItem == StartsWith(line, <<"*", " ">>)
       IN  IF isListItem
           THEN /\ inList' = TRUE
                /\ elements' = Append(elements, Ul(<<renderLine(line)>>))
           ELSE /\ inList' = FALSE
                /\ elements' = Append(elements, renderLine(line))
    /\ lineIndex' = lineIndex + 1
    /\ UNCHANGED <<content, appVars, swVars>>

\* One iteration of the loop over the lines.
renderLoop ==
    /\ lineIndex < Len(lines)
    /\ LET line == lines[lineIndex + 1]
           isListItem == StartsWith(line, <<"*", " ">>)
       IN  IF isListItem /\ ~inList
           THEN /\ inList' = TRUE
                /\ elements' = Append(elements, Ul(<<renderLine(line)>>))
           ELSE IF isListItem /\ inList
           THEN /\ LET lastElement ==
                         IF elements = <<>> THEN Null
                         ELSE elements[Len(elements)]
                   IN  IF lastElement # Null /\ lastElement.tag = "ul"
                       THEN elements' =
                              [elements EXCEPT ![Len(elements)] =
                                 Ul(Append(ChildrenToArray(lastElement.children),
                                           renderLine(line)))]
                       ELSE UNCHANGED elements
                /\ UNCHANGED inList
           ELSE /\ inList' = FALSE
                /\ elements' = Append(elements, renderLine(line))
    /\ lineIndex' = lineIndex + 1
    /\ UNCHANGED <<content, appVars, swVars>>

MdNext == renderLoop

\* MarkdownRenderer applied to each of the texts.
MdSpec == MdInit /\ [][MdNext]_vars

-----------------------------------------------------------------------------
(* Offline assets: the service worker *)

\* The static assets the worker caches at install.
urlsToCache ==
    {"/", "/index.html", "/index.tsx", "/App.tsx",
     "/services/geminiService.ts", "/utils/fileUtils.ts",
     "/components/Spinner.tsx", "/components/icons.tsx",
     "/components/MarkdownRenderer.tsx", "/assets/icon-192x192.png",
     "/assets/icon-512x512.png", "https://cdn.tailwindcss.com",
     "https://fonts.googleapis.com/css2?family=Be+Vietnam+Pro:wght@400;500;700&display=swap"
    }

\* The URLs the page requests: the assets, and two that are not cached.
RequestUrls ==
    urlsToCache \cup {"/manifest.json", "https://generativelanguage.googleapis.com"}

\* The response the network gives for url; when tells the responses fetched
\* at install from those fetched later.
Response(url, when) == [type |-> "response", url |-> url, fetchedAt |-> when]

\* The rejection of fetch().
NetworkError == [type |-> "error"]

\* caches.match(request): the cached response for url, or Null (undefined).
CachesMatch(url) ==
    IF \E r \in cache : r.url = url
    THEN CHOOSE r \in cache : r.url = url
    ELSE Null

\* The 'install' listener: waitUntil(caches.open(CACHE_NAME).then(addAll)).
install ==
    /\ swState = "parsed"
    /\ swState' = "installing"
    /\ UNCHANGED <<cache, fetches, netRequests, served, appVars, mdVars>>

\* cache.addAll(urlsToCache) resolves: every asset was fetched and stored,
\* the install succeeds and the worker takes control.
addAllResolves ==
    /\ swState = "installing"
    /\ cache' = {Response(url, "install") : url \in urlsToCache}
    /\ swState' = "activated"
    /\ UNCHANGED <<fetches, netRequests, served, appVars, mdVars>>

\* cache.addAll(urlsToCache) rejects: nothing is stored, the install fails
\* and the worker is discarded.
addAllRejects ==
    /\ swState = "installing"
    /\ swState' = "redundant"
    /\ UNCHANGED <<cache, fetches, netRequests, served, appVars, mdVars>>

\* The 'fetch' listener is called for a request of url: respondWith the
\* promise of caches.match(event.request).then(...).
fetchEvent(url) ==
    /\ swState = "activated"
    /\ Cardinality(fetches) < MaxFetches
    /\ fetches' = fetches \cup {[url |-> url, stage |-> "match"]}
    /\ UNCHANGED <<swState, cache, netRequests, served, appVars, mdVars>>

\* Variant of matchResolves that asks the network whatever the cache holds.
matchResolves_networkFirst(f) ==
    /\ f \in fetches
    /\ f.stage = "match"
    /\ fetches' = (fetches \ {f}) \cup {[f EXCEPT !.stage = "network"]}
    /\ netRequests' = netRequests \cup {f.url}
    /\ UNCHANGED served
    /\ UNCHANGED <<swState, cache, appVars, mdVars>>

\* caches.match resolves for the pending fetch f: the callback returns the
\* cached response, or calls fetch(event.request).
matchResolves(f) ==
    /\ f \in fetches
    /\ f.stage = "match"
    /\ LET response == CachesMatch(f.url) IN
         IF response # Null
         THEN /\ served' = [url |-> f.url, response |-> response]
              /\ fetches' = fetches \ {f}
              /\ UNCHANGED netRequests
         ELSE /\ fetches' = (fetches \ {f}) \cup {[f EXCEPT !.stage = "network"]}
              /\ netRequests' = netRequests \cup {f.url}
              /\ UNCHANGED served
    /\ UNCHANGED <<swState, cache, appVars, mdVars>>

\* fetch(event.request) settles for the pending fetch f: its response, or its
\* rejection, is what respondWith passes on.
networkSettles(f, ok) ==
    /\ f \in fetches
    /\ f.stage = "network"
    /\ served' = [url |-> f.url,
                  response |-> IF ok THEN Response(f.url, "fetch")
                               ELSE NetworkError]
    /\ fetches' = fetches \ {f}
    /\ UNCHANGED <<swState, cache, netRequests, appVars, mdVars>>

SwNext ==
    \/ install
    \/ addAllResolves
    \/ addAllRejects
    \/ \E url \in RequestUrls : fetchEvent(url)
    \/ \E f \in fetches : matchResolves(f)
    \/ \E f \in fetches, ok \in BOOLEAN : networkSettles(f, ok)

\* The service worker from its registration on.
SwSpec == Init /\ [][SwNext]_vars

-----------------------------------------------------------------------------
(* Properties *)

\* Every workflow field has its initial (empty) value.
WorkflowEmpty(files, urls, name, health, advice, goal, loading, err) ==
    /\ files = <<Null, Null>>
    /\ urls = <<Null, Null>>
    /\ name = <<>>
    /\ health = <<>>
    /\ advice = <<>>
    /\ goal = <<>>
    /\ loading = Null
    /\ err = Null

\* The step order API_KEY < UPLOAD < CONFIRM < DIAGNOSE < GOAL.
StepRank(s) ==
    CASE s = "API_KEY" -> 0
      [] s = "UPLOAD" -> 1
      [] s = "CONFIRM" -> 2
      [] s = "DIAGNOSE" -> 3
      [] s = "GOAL" -> 4

\* C1: in every reachable state at most one of loadingMessage and error is
\* set.
C1_AtMostOneOfLoadingAndError ==
    ~(loadingMessage # Null /\ error # Null)

\* C1 witness: an error was set by a call that failed while the loading
\* message was shown.
C1_Witness ==
    /\ lastOp = "callRejects"
    /\ error # Null
    /\ loadingMessage = Null

\* C2 as stated: every transition of a workflow instance other than the
\* explicit reset (resetWorkflow) leaves step unchanged or moves it forward.
\* A page reload starts a new instance and is not a transition of one.
C2_StepNeverRegressesExceptReset ==
    [][(~resetWorkflow /\ ~Reload)
         => StepRank(currentStep') >= StepRank(currentStep)]_vars

\* C2 amended: every transition other than the explicit reset, the error
\* recovery (the onReset of ErrorView) and the startup effects leaves step
\* unchanged or moves it forward.
C2_StepRegressesOnlyByResetRecoveryOrStartup ==
    [][(~resetWorkflow /\ ~errorReset /\ ~Mount /\ ~Reload)
         => StepRank(currentStep') >= StepRank(currentStep)]_vars

\* C2 witness: a successful health analysis has moved the step forward.
C2_Witness ==
    /\ lastOp = "analyzeResolves"
    /\ currentStep = "DIAGNOSE"

C4_FailedCallStaysInStep ==
    [][\A i \in DOMAIN calls :
         callRejects(i)
           => /\ currentStep' = calls[i].step
              /\ error' # Null
              /\ plantName' = calls[i].plantName
              /\ healthAnalysis' = calls[i].healthAnalysis
              /\ goalAnalysis' = goalAnalysis]_vars

\* C4 witness: a health analysis started in CONFIRM has failed.
C4_Witness ==
    /\ lastOp = "callRejects"
    /\ currentStep = "CONFIRM"
    /\ error = Msg("analysis-failed")

\* The user-interface actions: navigation, edits, selections and resets.
UserAction ==
    \/ \E raw \in RawKeys : handleSubmit(raw)
    \/ \E i \in 1..2, f \in PickedFiles \cup {Null} : handleImageChange(i, f)
    \/ handleIdentification
    \/ handleAnalysis
    \/ handleGoalAdvice
    \/ \E name \in NameInputs : setPlantName(name)
    \/ \E goal \in GoalInputs : setUserGoal(goal)
    \/ diagnoseNext
    \/ resetWorkflow
    \/ errorReset

\* C5: loadingMessage is set exactly while a call is outstanding, no user
\* action is enabled while it is set, and, every started call settling, the
\* loading state always ends.
C5_LoadingExactlyWhileCallOutstanding ==
    /\ []((loadingMessage # Null) <=> (Len(calls) > 0))
    /\ [](loadingMessage # Null => ~ENABLED UserAction)
    /\ (loadingMessage # Null) ~> (loadingMessage = Null)

\* C5 witness: the model call of a health analysis is outstanding and the
\* loading message is shown.
C5_Witness ==
    /\ Len(calls) = 1
    /\ calls[1].op = "analyze"
    /\ calls[1].stage = "request"
    /\ loadingMessage = Msg("analysing")

\* C6: at most one model call is outstanding, and while one is no 'next'
\* action is enabled.
C6_AtMostOneCallOutstanding ==
    /\ Len(calls) <= 1
    /\ Len(calls) = 1
         => ~ENABLED (handleIdentification \/ handleAnalysis \/ handleGoalAdvice)

\* C6 witness: an advice call is outstanding in the GOAL step.
C6_Witness ==
    /\ Len(calls) = 1
    /\ calls[1].op = "advice"
    /\ currentStep = "GOAL"

\* The age of the stored credential.
StoredAge == now - storage.timestamp

\* C7: the load at startup of a stored credential returns its value and
\* leaves storage alone when less than 30 minutes have passed since it was
\* stored, and returns none and deletes the entry otherwise.
C7_LoadReturnsCredentialUntilTimeout ==
    [][(Mount /\ storage # Null)
         => IF StoredAge < 30 * MINUTE_MS
            THEN apiKey' = Str(storage.key) /\ storage' = storage
            ELSE apiKey' = Null /\ storage' = Null]_vars

\* C7 witness: "X" was submitted and loaded again before the timeout.
C7_Witness ==
    /\ lastOp = "Mount"
    /\ apiKey = Str(<<"X">>)
    /\ storage # Null
    /\ StoredAge < 30 * MINUTE_MS

\* C8: whenever the workflow is past API_KEY or a call made with the
\* credential is outstanding, the credential was stored less than 30 minutes
\* ago.
C8_CredentialInUseIsYoungerThanTimeout ==
    ((mounted /\ currentStep # "API_KEY") \/ Len(calls) > 0)
      => (storage # Null /\ StoredAge < 30 * MINUTE_MS)

\* The credential held by the running workflow has expired.
CredentialExpired ==
    /\ mounted
    /\ apiKey # Null
    /\ storage # Null
    /\ StoredAge >= 30 * MINUTE_MS

\* C9: once the credential has expired while the workflow is running, the
\* workflow is reset to its initial values with step API_KEY.
C9_ExpiryResetsWorkflow ==
    CredentialExpired
      ~> (currentStep = "API_KEY" /\ apiKey = Null /\ InitialWorkflow)

\* raw consists of white space only.
Blank(raw) == \A k \in 1..Len(raw) : raw[k] = " "

\* t is raw without its leading and trailing white space.
IsTrimOf(t, raw) ==
    /\ t # <<>>
    /\ t[1] # " "
    /\ t[Len(t)] # " "
    /\ \E a \in 0..Len(raw) :
         /\ a + Len(t) <= Len(raw)
         /\ SubSeq(raw, a + 1, a + Len(t)) = t
         /\ Blank(SubSeq(raw, 1, a))
         /\ Blank(SubSeq(raw, a + Len(t) + 1, Len(raw)))

\* C10: submitting a blank key changes nothing; submitting any other key
\* stores its trimmed value with the current time and makes that value the
\* credential.
C10_SubmitStoresTrimmedKey ==
    [][\A raw \in RawKeys :
         handleSubmit(raw)
           => IF Blank(raw)
              THEN UNCHANGED <<now, storage, mounted, apiKey, currentStep,
                               dataVars, loadingMessage, error, calls, readers,
                               histVars, mdVars, swVars>>
              ELSE /\ apiKey' # Null
                   /\ IsTrimOf(apiKey'.val, raw)
                   /\ storage' # Null
                   /\ storage'.key = apiKey'.val
                   /\ storage'.timestamp = now]_vars

\* C10 witness: " X " was submitted and "X" is stored with the current time.
C10_Witness ==
    /\ lastOp = "handleSubmit"
    /\ apiKey = Str(<<"X">>)
    /\ storage # Null
    /\ storage.key = <<"X">>
    /\ storage.timestamp = now

\* A 'next' action was refused: the step, the loading message, the calls and
\* every data field are as before and error is the message msg.
Refused(msg) ==
    /\ currentStep' = currentStep
    /\ error' = Msg(msg)
    /\ loadingMessage' = Null
    /\ loadingMessage = Null
    /\ calls' = calls
    /\ calls = <<>>
    /\ dataVars' = dataVars

\* C11: a 'next' action whose precondition fails (UPLOAD without an image,
\* CONFIRM with a blank plantName, GOAL with a blank userGoal) leaves the step
\* unchanged, sets error to the corresponding message, does not set
\* loadingMessage, issues no call and changes no data field.
C11_RefusedNextOnlySetsError ==
    [][/\ (handleIdentification /\ \A k \in 1..2 : imageFiles[k] = Null)
          => (currentStep = "UPLOAD" /\ Refused("missing-image"))
       /\ (handleAnalysis /\ Blank(plantName))
          => (currentStep = "CONFIRM" /\ Refused("empty-name"))
       /\ (handleGoalAdvice /\ Blank(userGoal))
          => (currentStep = "GOAL" /\ Refused("empty-goal"))]_vars

\* C11 witness: 'next' was pressed in CONFIRM with a whitespace-only name.
C11_Witness ==
    /\ lastOp = "handleAnalysis"
    /\ currentStep = "CONFIRM"
    /\ plantName = <<" ">>
    /\ error = Msg("empty-name")
    /\ calls = <<>>

\* The actions of the step views: 'next', edits, image selection, reset and
\* key submission.
StepViewAction ==
    \/ \E raw \in RawKeys : handleSubmit(raw)
    \/ \E i \in 1..2, f \in PickedFiles \cup {Null} : handleImageChange(i, f)
    \/ handleIdentification
    \/ handleAnalysis
    \/ handleGoalAdvice
    \/ \E name \in NameInputs : setPlantName(name)
    \/ \E goal \in GoalInputs : setUserGoal(goal)
    \/ diagnoseNext
    \/ resetWorkflow

\* C12: whenever error is set the recovery view is shown, its action is enabled
\* and no action of a step view is; the recovery action clears error and sets
\* the step to UPLOAD.
C12_ErrorShowsOnlyRecovery ==
    /\ [](error # Null
            => /\ View = "ERROR"
               /\ ENABLED errorReset
               /\ ~ENABLED StepViewAction)
    /\ [][errorReset
            => error # Null /\ error' = Null /\ currentStep' = "UPLOAD"]_vars

\* C12 witness: the recovery action was taken from the GOAL step.
C12_Witness ==
    /\ lastOp = "errorReset"
    /\ error = Null
    /\ currentStep = "UPLOAD"
    /\ userGoal = <<" ">>

\* C14: a successful identify, started in UPLOAD with an image, sets plantName
\* to the trimmed name and moves to CONFIRM; a successful analyzeHealth,
\* started in CONFIRM with a non-blank plantName, sets healthAnalysis to the
\* text and moves to DIAGNOSE; a successful goalAdvice, started in GOAL with a
\* non-blank userGoal, sets goalAnalysis to the text and stays in GOAL; error
\* stays unset in each case.
C14_SuccessFollowsTransitionTable ==
    [][/\ \A i \in DOMAIN calls, text \in IdentifyTexts :
            identifyResolves(i, text)
              => /\ currentStep = "UPLOAD"
                 /\ \E k \in 1..2 : imageFiles[k] # Null
                 /\ IF Blank(text) THEN plantName' = <<>>
                    ELSE IsTrimOf(plantName', text)
                 /\ currentStep' = "CONFIRM"
                 /\ error = Null /\ error' = Null
       /\ \A i \in DOMAIN calls, text \in HealthTexts :
            analyzeResolves(i, text)
              => /\ currentStep = "CONFIRM"
                 /\ ~Blank(plantName)
                 /\ healthAnalysis' = text
                 /\ currentStep' = "DIAGNOSE"
                 /\ error = Null /\ error' = Null
       /\ \A i \in DOMAIN calls, text \in AdviceTexts :
            adviceResolves(i, text)
              => /\ currentStep = "GOAL"
                 /\ ~Blank(userGoal)
                 /\ goalAnalysis' = text
                 /\ currentStep' = "GOAL"
                 /\ error = Null /\ error' = Null]_vars

\* C14 witness: an identify call has returned " q " and the step is CONFIRM
\* with the name "q".
C14_Witness ==
    /\ lastOp = "identifyResolves"
    /\ currentStep = "CONFIRM"
    /\ plantName = <<"q">>
    /\ error = Null

\* C15: when a credential becomes available, by a submitted non-blank key or
\* by the load at startup, the step becomes UPLOAD; while none is held the
\* step is API_KEY once the startup effects have run, and they always run.
C15_CredentialDecidesStep ==
    /\ [][(apiKey = Null /\ apiKey' # Null)
            => /\ currentStep' = "UPLOAD"
               /\ \/ \E raw \in RawKeys :
                       handleSubmit(raw) /\ ~Blank(raw) /\ currentStep = "API_KEY"
                  \/ Mount /\ storage # Null]_vars
    /\ [][\A raw \in RawKeys :
            (handleSubmit(raw) /\ ~Blank(raw))
              => (apiKey' # Null /\ currentStep' = "UPLOAD")]_vars
    /\ []((mounted /\ apiKey = Null) => currentStep = "API_KEY")
    /\ (apiKey = Null) ~> (apiKey # Null \/ currentStep = "API_KEY")

\* C15 witness: the load at startup found a stored credential and the step is
\* UPLOAD.
C15_Witness ==
    /\ lastOp = "Mount"
    /\ apiKey # Null
    /\ currentStep = "UPLOAD"

\* C16: calls are sequential and ordered by dependency: at most one is
\* outstanding; an analyzeHealth call is outstanding only after an identify
\* call has succeeded, a goalAdvice call only after an analyzeHealth call has
\* succeeded, and the plantName and healthAnalysis passed to goalAdvice are the
\* current ones, the report being one that analyzeHealth returned.
C16_CallsOrderedByDependency ==
    /\ Len(calls) <= 1
    /\ \A i \in DOMAIN calls :
         /\ calls[i].op = "analyze" => "identify" \in succeeded
         /\ calls[i].op = "advice"
              => /\ "identify" \in succeeded
                 /\ "analyze" \in succeeded
                 /\ calls[i].plantName = plantName
                 /\ calls[i].healthAnalysis = healthAnalysis
                 /\ calls[i].healthAnalysis \in HealthTexts

\* C16 witness: a goalAdvice call is outstanding with the confirmed name and
\* the report of the diagnosis.
C16_Witness ==
    /\ Len(calls) = 1
    /\ calls[1].op = "advice"
    /\ calls[1].plantName = <<"q">>
    /\ calls[1].healthAnalysis = <<"h">>

\* The handler suspended as calls[i] returns: its awaited promise rejects, or
\* its model call resolves.
HandlerReturns(i) ==
    \/ callRejects(i)
    \/ \E text \in IdentifyTexts : identifyResolves(i, text)
    \/ \E text \in HealthTexts : analyzeResolves(i, text)
    \/ \E text \in AdviceTexts : adviceResolves(i, text)

\* The requests sent to the model by the handlers in cs.
RECURSIVE RequestsSent(_)
RequestsSent(cs) ==
    IF cs = <<>> THEN 0 ELSE Head(cs).requests + RequestsSent(Tail(cs))

\* A 'next' action is accepted and its handler starts.
NextAccepted ==
    /\ handleIdentification \/ handleAnalysis \/ handleGoalAdvice
    /\ calls' = Append(calls, calls'[Len(calls')])

\* No request is sent again: a handler is started only by an accepted 'next'
\* action, sends a request only if it has not sent one, and is over once its
\* awaited promise has rejected.
NoRetry ==
    /\ Len(calls') > Len(calls) => NextAccepted
    /\ \A i \in DOMAIN calls :
         /\ (i \in DOMAIN calls' /\ calls'[i].requests > calls[i].requests)
              => (calls[i].requests = 0 /\ calls'[i].requests = 1)
         /\ callRejects(i)
              => (calls' = RemoveAt(calls, i) /\ RequestsSent(calls') = 0)

\* C17 as stated: the handler of every accepted 'next' action has sent
\* exactly one request to the model when it returns, and no request is sent
\* again.
C17_NextInvokesModelExactlyOnce ==
    [][/\ \A i \in DOMAIN calls : HandlerReturns(i) => calls[i].requests = 1
       /\ NoRetry]_vars

\* C17 amended: the handler of every accepted 'next' action has sent at most
\* one request to the model when it returns: none when the image encoding
\* rejected, one otherwise; and no request is sent again.
C17_NextInvokesModelAtMostOnce ==
    [][/\ \A i \in DOMAIN calls :
            HandlerReturns(i)
              => calls[i].requests =
                   (IF callRejects(i) /\ calls[i].stage = "encode" THEN 0 ELSE 1)
       /\ NoRetry]_vars

\* C17 witness: the request of an identify call was rejected and no call is
\* outstanding.
C17_Witness ==
    /\ lastOp = "callRejects"
    /\ error = Msg("identify-failed")
    /\ calls = <<>>
    /\ currentStep = "UPLOAD"

\* C18: selecting a file that is not an image leaves both image slots (files
\* and previews) and the step unchanged and starts no file read; only error
\* is set.
C18_NonImageSelectionOnlySetsError ==
    [][\A index \in 1..2, file \in PickedFiles :
         (handleImageChange(index, file) /\ file.mime[1] # "image")
           => /\ error' = Msg("not-image")
              /\ imageFiles' = imageFiles
              /\ imageDataUrls' = imageDataUrls
              /\ currentStep' = currentStep
              /\ readers' = readers
              /\ UNCHANGED <<now, storage, mounted, apiKey, plantName,
                             healthAnalysis, goalAnalysis, userGoal,
                             loadingMessage, calls>>]_vars

\* C18 witness: a text file was selected after an image had been selected.
C18_Witness ==
    /\ lastOp = "handleImageChange"
    /\ error = Msg("not-image")
    /\ imageFiles[1] = ImageFile
    /\ currentStep = "UPLOAD"

\* C20: whenever the GOAL step shows a non-empty goalAnalysis, it is the
\* result of a call made with the current plantName and healthAnalysis, and
\* no name and no report has been obtained since that call.
C20_ShownAdviceIsForCurrentPlantAndReport ==
    (View = "GOAL" /\ goalAnalysis # <<>>)
      => /\ adviceRequest # Null
         /\ adviceRequest.plantName = plantName
         /\ adviceRequest.healthAnalysis = healthAnalysis
         /\ adviceRequest.later = {}

\* The loop of MarkdownRenderer is over.
Rendered == lineIndex = Len(lines)

\* Line k of ls is a bullet line.
IsBullet(ls, k) ==
    Len(ls[k]) >= 2 /\ ls[k][1] = "*" /\ ls[k][2] = " "

\* The number of the line on which the run of bullet lines through k ends.
RECURSIVE RunEnd(_, _)
RunEnd(ls, k) ==
    IF k < Len(ls) /\ IsBullet(ls, k + 1) THEN RunEnd(ls, k + 1) ELSE k

\* The maximal runs of consecutive bullet lines of ls, as pairs of the
\* numbers of their first and last line, in order.
BulletRuns(ls) ==
    LET starts == {k \in 1..Len(ls) :
                     IsBullet(ls, k) /\ (k = 1 \/ ~IsBullet(ls, k - 1))}
        Ordered[S \in SUBSET (1..Len(ls))] ==
          IF S = {} THEN <<>>
          ELSE LET k == CHOOSE m \in S : \A n \in S : m <= n
               IN  <<<<k, RunEnd(ls, k)>>>> \o Ordered[S \ {k}]
    IN  Ordered[starts]

\* The list blocks among the elements.
ListBlocks == SelectSeq(elements, LAMBDA e : e # Null /\ e.tag = "ul")

\* The elements that render something.
Blocks == SelectSeq(elements, LAMBDA e : e # Null)

\* C13: the rendering has exactly one list block for every maximal run of
\* consecutive bullet lines, in order, whose items are the lines of the run in
\* order; "### T\n* a\n* b\n" gives a heading followed by one list of two
\* items.
C13_BulletRunsBecomeSingleLists ==
    Rendered
      => /\ LET runs == BulletRuns(lines) IN
              /\ Len(ListBlocks) = Len(runs)
              /\ \A j \in 1..Len(runs) :
                   /\ Len(ListBlocks[j].children) = runs[j][2] - runs[j][1] + 1
                   /\ \A n \in 1..Len(ListBlocks[j].children) :
                        /\ ListBlocks[j].children[n].tag = "li"
                        /\ <<"*", " ">> \o ListBlocks[j].children[n].html
                             = lines[runs[j][1] + n - 1]
         /\ content = <<"#", "#", "#", " ", "T", "\n", "*", " ", "a", "\n",
                        "*", " ", "b", "\n">>
              => Blocks = <<Element("h3", <<"T">>),
                            Ul(<<Element("li", <<"a">>),
                                 Element("li", <<"b">>)>>)>>

\* C13 witness: "### T\n* a\n* b\n" has been rendered and its second element
\* is a list of two items.
C13_Witness ==
    /\ Rendered
    /\ content = <<"#", "#", "#", " ", "T", "\n", "*", " ", "a", "\n",
                   "*", " ", "b", "\n">>
    /\ Len(elements) = 3
    /\ Len(elements[2].children) = 2

\* C19: a fetch whose request has a match in the cache is answered with the
\* cached response and no network request is made; any other fetch is
\* forwarded to the network and answered with what the network returns; once
\* the install has succeeded the cache holds every asset of urlsToCache.
C19_CacheFirstWithNetworkFallback ==
    /\ [][\A f \in fetches :
            /\ (matchResolves(f) /\ \E r \in cache : r.url = f.url)
                 => /\ served'.url = f.url
                    /\ served'.response \in cache
                    /\ served'.response.url = f.url
                    /\ netRequests' = netRequests
                    /\ f \notin fetches'
            /\ (matchResolves(f) /\ ~ \E r \in cache : r.url = f.url)
                 => /\ netRequests' = netRequests \cup {f.url}
                    /\ [url |-> f.url, stage |-> "network"] \in fetches'
                    /\ served' = served
            /\ \A ok \in BOOLEAN :
                 networkSettles(f, ok)
                   => /\ served'.url = f.url
                      /\ served'.response =
                           (IF ok THEN Response(f.url, "fetch") ELSE NetworkError)
                      /\ f.url \in netRequests]_vars
    /\ [](swState = "activated"
            => \A url \in urlsToCache : \E r \in cache : r.url = url)
    /\ [](netRequests \cap urlsToCache = {})

\* C19 witness: a fetch of "/" was answered from the cache and a fetch of
\* "/manifest.json" was forwarded to the network.
C19_Witness ==
    /\ served # Null
    /\ served.url = "/"
    /\ served.response = Response("/", "install")
    /\ netRequests = {"/manifest.json"}

\* Slot k shows a preview exactly when it holds a file.
PreviewMatchesFile(k) == (imageDataUrls[k] # Null) <=> (imageFiles[k] # Null)

\* C21: once no read is pending every slot has a preview exactly when it has
\* a file, and the completion of the read of one slot leaves the preview of
\* the other slot as it was.
C21_PreviewsConsistentWithFiles ==
    /\ [](readers = {} => \A k \in 1..2 : PreviewMatchesFile(k))
    /\ [][\A r \in readers, ok \in BOOLEAN :
            onloadend(r, ok)
              => \A k \in (1..2) \ {r.index} :
                   imageDataUrls'[k] = imageDataUrls[k]]_vars

\* C22: in CONFIRM, DIAGNOSE and GOAL at least one image file is present and
\* the files are those passed to the identify call that led to CONFIRM; an
\* analyzeHealth call is made with those files, never with none.
C22_FilesPastUploadAreTheIdentifiedOnes ==
    /\ currentStep \in {"CONFIRM", "DIAGNOSE", "GOAL"}
         => /\ SomeFile(imageFiles)
            /\ NonNullFiles(imageFiles) = identifiedFiles
    /\ \A i \in DOMAIN calls :
         calls[i].op = "analyze"
           => /\ calls[i].files # <<>>
              /\ calls[i].files = identifiedFiles

\* C22 witness: an analyzeHealth call is outstanding with the two files that
\* were identified.
C22_Witness ==
    /\ Len(calls) = 1
    /\ calls[1].op = "analyze"
    /\ calls[1].stage = "request"
    /\ calls[1].files = <<ImageFile, ImageFile>>
    /\ currentStep = "CONFIRM"

\* The view on screen has a button that starts a model call: the 'next' of
\* UploadStep and ConfirmStep and the advice button of GoalStep.
NextOffered == View \in {"UPLOAD", "CONFIRM", "GOAL"}

\* C23: whenever a 'next' action of UPLOAD, CONFIRM or GOAL is offered, the
\* first commit before the load effect included, the in-memory credential is
\* not null; no model call is made without a credential; and a credential
\* once set stays set until the page is left.
C23_NextOfferedOnlyWithCredential ==
    /\ [](NextOffered => apiKey # Null)
    /\ [](\A i \in DOMAIN calls : calls[i].apiKey # Null)
    /\ [][(apiKey # Null /\ ~Reload) => apiKey' # Null]_vars

-----------------------------------------------------------------------------
(* The application on an arbitrary stored entry *)

\* What sessionStorage['gemini-api-key'] may hold when the page is opened:
\* nothing, an entry saveApiKey wrote, a text that is not JSON, the JSON
\* text null, and JSON objects whose key or timestamp is missing or of
\* another type.
StoredTexts ==
    {Null,
     JSONstringify([key |-> <<"X">>, timestamp |-> ClockStart]),
     NotAnObject("{oops"),
     NotAnObject("null"),
     ObjectText(Str(<<"X">>), Undefined),
     ObjectText(Str(<<"X">>), Null),
     ObjectText(Str(<<"X">>), Str(<<"a">>)),
     ObjectText(Str(<<"X">>), Str(NumberToString(ClockStart))),
     ObjectText(Str(<<"X">>), Arr(<<Num(ClockStart)>>)),
     ObjectText(Str(<<"X">>), Arr(<<Num(1), Num(2)>>)),
     ObjectText(Undefined, Num(ClockStart))}

StoredInit ==
    /\ storage \in StoredTexts
    /\ PageInit
    /\ MdIdle
    /\ SwRegistered

\* The application opened on any of these entries.
LoadSpec == StoredInit /\ [][Next]_vars

\* typeof v === 'number'
IsNumber(v) == v.type = "number"

\* The stored entry is malformed: its text is not the JSON of an object, or
\* its timestamp is missing or is not a number.
Malformed(item) ==
    /\ item # Null
    /\ \/ item.type = "text"
       \/ item.type = "object" /\ ~IsNumber(item.timestamp)

\* C24: the load of a malformed entry yields no credential, removes the
\* entry from storage and leaves the workflow in API_KEY.
C24_MalformedEntryIsRejectedAndRemoved ==
    [][(Mount /\ Malformed(storage))
         => /\ apiKey' = Null
            /\ storage' = Null
            /\ currentStep' = "API_KEY"]_vars

====
